---- MODULE Spec2Model ----
(***************************************************************************)
(* Model of the Detector orchestration of NN-Troj-Analysis                 *)
(* (src/detector.py): _load_model, configure and infer, together with the  *)
(* files they read and write.                                              *)
(*                                                                         *)
(* Python dictionaries keep insertion order; a dictionary is modelled as a *)
(* sequence of [k |-> key, v |-> value] entries in insertion order.        *)
(* A tensor is modelled by its shape and by the origin of its values       *)
(* (model directory, layer name).                                          *)
(***************************************************************************)
EXTENDS Integers, Sequences, FiniteSets, TLC

VARIABLES
    files,      \* the three artifact files under learned_parameters_dirpath
    corpus,     \* models_dirpath: directory name (1..n) -> model directory
    cfg,        \* the running Detector.configure call
    calls,      \* the Detector.infer calls, one per caller
    result,     \* result_filepath of each infer caller
    ld          \* one isolated _load_model call

vars == <<files, corpus, cfg, calls, result, ld>>

(***************************************************************************)
(* Bounds                                                                  *)
(***************************************************************************)
MaxModels == 3
NumCallers == 2

Callers == 1..NumCallers

(***************************************************************************)
(* Ordered dictionaries                                                    *)
(***************************************************************************)
Keys(d) == {d[i].k : i \in DOMAIN d}

KeySeq(d) == [i \in DOMAIN d |-> d[i].k]

Get(d, key) == d[CHOOSE i \in DOMAIN d : d[i].k = key].v

\* d[key] = v moved to the end of the dictionary (delete, then insert)
PutAtEnd(d, key, v) ==
    Append(SelectSeq(d, LAMBDA e : e.k # key), [k |-> key, v |-> v])

\* d[key] = v: an existing key keeps its position, a new key goes last
Put(d, key, v) ==
    IF key \in Keys(d)
    THEN [i \in DOMAIN d |-> IF d[i].k = key THEN [k |-> key, v |-> v] ELSE d[i]]
    ELSE Append(d, [k |-> key, v |-> v])

RECURSIVE Prod(_)
Prod(s) == IF s = <<>> THEN 1 ELSE Head(s) * Prod(Tail(s))

RECURSIVE SumLen(_)
SumLen(s) == IF s = <<>> THEN 0 ELSE Head(s).len + SumLen(Tail(s))

(***************************************************************************)
(* Detector class attributes and constructor                               *)
(***************************************************************************)
PaddedArchs == {"MobileNetV2", "ResNet", "VisionTransformer"}

Pad(layer, target) == [layer |-> layer, target |-> target]

model_padding ==
    [a \in PaddedArchs |->
        CASE a = "MobileNetV2" ->
                << Pad("classifier.1.weight", <<138, 1280>>),
                   Pad("classifier.1.bias", <<138>>) >>
          [] a = "ResNet" ->
                << Pad("fc.weight", <<138, 2048>>), Pad("fc.bias", <<138>>) >>
          [] a = "VisionTransformer" ->
                << Pad("head.weight", <<138, 768>>), Pad("head.bias", <<138>>) >>]

\* the three artifact paths set by __init__
ModelFile == "data/model.bin"
LayerMapFile == "data/model_layer_map.bin"
TransformFile == "data/layer_transform.bin"
Artifacts == {ModelFile, LayerMapFile, TransformFile}

\* keyword names __init__ stores in self.random_forest_kwargs
random_forest_kwargs ==
    {"n_estimator", "criterion", "max_depth", "min_samples_split",
     "min_sample_leaf", "min_weight_fraction_leaf", "max_features",
     "min_impurity_decrease"}

\* keyword parameters of sklearn.ensemble.RandomForestRegressor.__init__,
\* which takes no **kwargs: any other keyword raises TypeError
RandomForestParams ==
    {"n_estimators", "criterion", "max_depth", "min_samples_split",
     "min_samples_leaf", "min_weight_fraction_leaf", "max_features",
     "max_leaf_nodes", "min_impurity_decrease", "bootstrap", "oob_score",
     "n_jobs", "random_state", "verbose", "warm_start", "ccp_alpha",
     "max_samples"}

(***************************************************************************)
(* Files                                                                   *)
(***************************************************************************)
Absent == [state |-> "absent", val |-> <<>>]
Empty == [state |-> "empty", val |-> <<>>]
Pickled(obj) == [state |-> "pickled", val |-> <<obj>>]

Readable(mode) == mode \in {"r", "rb"}
Writable(mode) == mode \in {"w", "wb"}

\* open(path, mode): "w"/"wb" creates or truncates, "r"/"rb" needs the file
OpenOk(file, mode) == Writable(mode) \/ file.state # "absent"
Opened(file, mode) == IF Writable(mode) THEN Empty ELSE file

\* pickle.load(fp) on a handle opened with mode
PickleLoadOk(file, mode) == Readable(mode) /\ file.state = "pickled"
PickleLoadErr(file, mode) ==
    IF ~Readable(mode) THEN "UnsupportedOperation:read" ELSE "EOFError"

\* the modes the file handles are opened with
LayerMapDumpMode == "wb"
TransformDumpMode == "wb"
ModelDumpMode == "wb"
LayerMapLoadMode == "rb"
TransformLoadMode == "rb"
ModelLoadMode == "wb"
ResultOpenMode == "r"

(***************************************************************************)
(* Model directories                                                       *)
(***************************************************************************)
Tensor(shape, path, layer) == [shape |-> shape, data |-> <<path, layer>>]

Entry(path, layer, shape) == [k |-> layer, v |-> Tensor(shape, path, layer)]

\* model.state_dict() of a well-formed model of class cls with nc classes
FullStateDict(path, cls, nc) ==
    CASE cls = "ResNet" ->
            << Entry(path, "conv1.weight", <<64, 3, 7, 7>>),
               Entry(path, "fc.weight", <<nc, 2048>>),
               Entry(path, "fc.bias", <<nc>>) >>
      [] cls = "MobileNetV2" ->
            << Entry(path, "features.0.0.weight", <<32, 3, 3, 3>>),
               Entry(path, "classifier.1.weight", <<nc, 1280>>),
               Entry(path, "classifier.1.bias", <<nc>>) >>
      [] cls = "VisionTransformer" ->
            << Entry(path, "cls_token", <<1, 1, 768>>),
               Entry(path, "head.weight", <<nc, 768>>),
               Entry(path, "head.bias", <<nc>>) >>
      [] OTHER ->
            << Entry(path, "fc1.weight", <<8092, 1024>>),
               Entry(path, "fc1.bias", <<8092>>),
               Entry(path, "fc2.weight", <<nc, 8092>>) >>

\* the state_dict of the model stored in directory dir
StateDict(path, dir) ==
    LET full == FullStateDict(path, dir.cls, dir.nc)
    IN  CASE dir.variant = "full" -> full
          [] dir.variant = "nobody" -> Tail(full)
          [] dir.variant = "nohead" -> SubSeq(full, 1, 2)
          [] dir.variant = "headfirst" -> Append(Tail(full), Head(full))

(***************************************************************************)
(* utils.* helpers imported by detector.py                                 *)
(***************************************************************************)
\* utils.flatten.pad_to_target: zero-pads up to target, never truncates
pad_to_target(t, target) ==
    IF /\ Len(t.shape) = Len(target)
       /\ \A i \in DOMAIN target : t.shape[i] <= target[i]
    THEN [ok |-> TRUE, err |-> "", val |-> [shape |-> target, data |-> t.data]]
    ELSE [ok |-> FALSE, err |-> "PaddingShapeError", val |-> t]

\* utils.healthchecks.check_models_consistency: within one architecture all
\* models have the same set of layer names
check_models_consistency(repr_dict) ==
    \A e \in DOMAIN repr_dict :
        \A i, j \in DOMAIN repr_dict[e].v :
            Keys(repr_dict[e].v[i]) = Keys(repr_dict[e].v[j])

\* utils.models.create_layer_map: per architecture, the layer names and
\* flattened sizes of one representative model, in its iteration order
create_layer_map(repr_dict) ==
    [e \in DOMAIN repr_dict |->
        [k |-> repr_dict[e].k,
         v |-> LET m == repr_dict[e].v[1]
               IN  [i \in DOMAIN m |->
                       [name |-> m[i].k, len |-> Prod(m[i].v.shape)]]]]

\* utils.flatten.flatten_model: the layers in layer-map order
FlattenOk(model, layer_map) ==
    \A i \in DOMAIN layer_map : layer_map[i].name \in Keys(model)

flatten_model(model, layer_map) ==
    [len |-> SumLen(layer_map),
     parts |-> [i \in DOMAIN layer_map |-> Get(model, layer_map[i].name).data]]

\* utils.reduction.fit_feature_reduction_algorithm: per architecture a
\* random weight table fixed by the seed and the flat width
fit_feature_reduction_algorithm(new_models) ==
    [e \in DOMAIN new_models |->
        [k |-> new_models[e].k,
         v |-> [arch |-> new_models[e].k, width |-> new_models[e].v[1].len]]]

\* utils.reduction.use_feature_reduction_algorithm: a pure function of the
\* transform and the flat vector
use_feature_reduction_algorithm(transform, flat) ==
    [table |-> transform, of |-> flat.parts]

(***************************************************************************)
(* Detector._load_model                                                    *)
(***************************************************************************)
LoadFail(err) == [ok |-> FALSE, err |-> err, repr |-> <<>>, cls |-> "", gt |-> ""]

\* the padding loop with each padded layer re-inserted at the end
RECURSIVE PadLayersReinsert(_, _)
PadLayersReinsert(repr, pads) ==
    IF pads = <<>> THEN [ok |-> TRUE, err |-> "", repr |-> repr]
    ELSE LET p == Head(pads)
         IN  IF p.layer \notin Keys(repr)
             THEN [ok |-> FALSE, err |-> "KeyError:layer", repr |-> repr]
             ELSE LET t == pad_to_target(Get(repr, p.layer), p.target)
                  IN  IF ~t.ok
                      THEN [ok |-> FALSE, err |-> t.err, repr |-> repr]
                      ELSE PadLayersReinsert(PutAtEnd(repr, p.layer, t.val),
                                             Tail(pads))

\* for (layer, target_padding) in self.model_padding[model_class].items():
\*     model_repr[layer] = pad_to_target(model_repr[layer], target_padding)
RECURSIVE PadLayers(_, _)
PadLayers(repr, pads) ==
    IF pads = <<>> THEN [ok |-> TRUE, err |-> "", repr |-> repr]
    ELSE LET p == Head(pads)
         IN  IF p.layer \notin Keys(repr)
             THEN [ok |-> FALSE, err |-> "KeyError:layer", repr |-> repr]
             ELSE LET t == pad_to_target(Get(repr, p.layer), p.target)
                  IN  IF ~t.ok
                      THEN [ok |-> FALSE, err |-> t.err, repr |-> repr]
                      ELSE PadLayers(Put(repr, p.layer, t.val), Tail(pads))

\* _load_model with an unknown class passed through unpadded
LoadModelLenient(path, dir, configure_mode) ==
    IF configure_mode /\ dir.gt = "absent"
    THEN LoadFail("FileNotFoundError:ground_truth.csv")
    ELSE LET pads == IF dir.cls \in DOMAIN model_padding
                     THEN model_padding[dir.cls] ELSE <<>>
             padded == PadLayers(StateDict(path, dir), pads)
         IN  IF ~padded.ok THEN LoadFail(padded.err)
             ELSE [ok |-> TRUE, err |-> "", repr |-> padded.repr,
                   cls |-> dir.cls,
                   gt |-> IF configure_mode THEN dir.gt ELSE "None"]

LoadModel(path, dir, configure_mode) ==
    IF configure_mode /\ dir.gt = "absent"
    THEN LoadFail("FileNotFoundError:ground_truth.csv")
    ELSE IF dir.cls \notin DOMAIN model_padding
    THEN LoadFail("KeyError:model_padding")
    ELSE LET padded == PadLayers(StateDict(path, dir), model_padding[dir.cls])
         IN  IF ~padded.ok THEN LoadFail(padded.err)
             ELSE [ok |-> TRUE, err |-> "", repr |-> padded.repr,
                   cls |-> dir.cls,
                   gt |-> IF configure_mode THEN dir.gt ELSE "None"]

(***************************************************************************)
(* Detector.configure                                                      *)
(***************************************************************************)
RECURSIVE Insert(_, _)
Insert(x, s) ==
    IF s = <<>> THEN <<x>>
    ELSE IF x <= Head(s) THEN <<x>> \o s
    ELSE <<Head(s)>> \o Insert(x, Tail(s))

\* sorted(...)
RECURSIVE Sorted(_)
Sorted(s) == IF s = <<>> THEN <<>> ELSE Insert(Head(s), Sorted(Tail(s)))

\* listdir(models_dirpath): the directory names in arbitrary order
Listings(names) ==
    {l \in [1..Cardinality(names) -> names] :
        \A i, j \in DOMAIN l : i # j => l[i] # l[j]}

NoX == [none |-> TRUE, rows |-> <<>>]

CfgIdle ==
    [pc |-> "idle", paths |-> <<>>, idx |-> 1,
     model_repr_dict |-> <<>>, model_ground_truth_dict |-> <<>>,
     model_layer_map |-> <<>>, new_models |-> <<>>, layer_transform |-> <<>>,
     X |-> NoX, y |-> <<>>, err |-> "", log |-> <<>>,
     start |-> [a \in Artifacts |-> Absent]]

\* with open(path, mode) as fp: pickle.dump(obj, fp)
Dump(path, mode, obj) ==
    files' = [files EXCEPT ![path] = IF Writable(mode) THEN Pickled(obj)
                                     ELSE files[path]]

\* lines 102-108: list and sort the corpus, create the two dictionaries
CfgList ==
    /\ cfg.pc = "idle"
    /\ \E l \in Listings(DOMAIN corpus) :
          cfg' = [cfg EXCEPT !.pc = "load", !.paths = Sorted(l),
                             !.log = Append(@, "listdir"), !.start = files]
    /\ UNCHANGED <<files, corpus, calls, result, ld>>

\* lines 110-121: one iteration of the loading loop
CfgLoadModel ==
    /\ cfg.pc = "load"
    /\ cfg.idx <= Len(cfg.paths)
    /\ LET path == cfg.paths[cfg.idx]
           m == LoadModel(path, corpus[path], TRUE)
           isNew == m.cls \notin Keys(cfg.model_repr_dict)
           reprs == IF isNew THEN <<>> ELSE Get(cfg.model_repr_dict, m.cls)
           gts == IF isNew THEN <<>>
                  ELSE Get(cfg.model_ground_truth_dict, m.cls)
       IN  IF ~m.ok
           THEN cfg' = [cfg EXCEPT !.pc = "failed", !.err = m.err,
                                   !.log = Append(@, "load")]
           ELSE cfg' = [cfg EXCEPT
                    !.idx = @ + 1,
                    !.model_repr_dict = Put(@, m.cls, Append(reprs, m.repr)),
                    !.model_ground_truth_dict = Put(@, m.cls, Append(gts, m.gt)),
                    !.log = Append(@, "load")]
    /\ UNCHANGED <<files, corpus, calls, result, ld>>

\* the consistency gate left out
CfgCheckSkipped ==
    /\ cfg.pc = "load"
    /\ cfg.idx > Len(cfg.paths)
    /\ cfg' = [cfg EXCEPT !.pc = "layermap", !.log = Append(@, "check")]
    /\ UNCHANGED <<files, corpus, calls, result, ld>>

\* line 123: check_models_consistency(model_repr_dict)
CfgCheck ==
    /\ cfg.pc = "load"
    /\ cfg.idx > Len(cfg.paths)
    /\ IF check_models_consistency(cfg.model_repr_dict)
       THEN cfg' = [cfg EXCEPT !.pc = "layermap", !.log = Append(@, "check")]
       ELSE cfg' = [cfg EXCEPT !.pc = "failed", !.err = "LayerMismatchError",
                               !.log = Append(@, "check")]
    /\ UNCHANGED <<files, corpus, calls, result, ld>>

\* lines 127-129: build the layer map and persist it
CfgLayerMap ==
    /\ cfg.pc = "layermap"
    /\ LET lm == create_layer_map(cfg.model_repr_dict)
       IN  /\ cfg' = [cfg EXCEPT !.pc = "flatten", !.model_layer_map = lm,
                          !.log = @ \o <<"create_layer_map", "write_layer_map">>]
           /\ Dump(LayerMapFile, LayerMapDumpMode, lm)
    /\ UNCHANGED <<corpus, calls, result, ld>>

\* lines 134-144: flatten every model with its architecture's layer map
CfgFlatten ==
    /\ cfg.pc = "flatten"
    /\ LET d == cfg.model_repr_dict
           ok == \A e \in DOMAIN d : \A i \in DOMAIN d[e].v :
                    FlattenOk(d[e].v[i], Get(cfg.model_layer_map, d[e].k))
       IN  IF ~ok
           THEN cfg' = [cfg EXCEPT !.pc = "failed", !.err = "LayerNotFoundError",
                                   !.log = Append(@, "flatten")]
           ELSE cfg' = [cfg EXCEPT
                    !.pc = "fit",
                    !.new_models =
                        [e \in DOMAIN d |->
                            [k |-> d[e].k,
                             v |-> [i \in DOMAIN d[e].v |->
                                      flatten_model(d[e].v[i],
                                          Get(cfg.model_layer_map, d[e].k))]]],
                    !.model_repr_dict = <<>>,
                    !.log = Append(@, "flatten")]
    /\ UNCHANGED <<files, corpus, calls, result, ld>>

\* lines 147-151: fit the reduction and persist it
CfgFitReduction ==
    /\ cfg.pc = "fit"
    /\ LET lt == fit_feature_reduction_algorithm(cfg.new_models)
       IN  /\ cfg' = [cfg EXCEPT !.pc = "apply", !.layer_transform = lt,
                          !.log = @ \o <<"fit_reduction", "write_transform">>]
           /\ Dump(TransformFile, TransformDumpMode, lt)
    /\ UNCHANGED <<corpus, calls, result, ld>>

RECURSIVE Flat(_)
Flat(ss) == IF ss = <<>> THEN <<>> ELSE Head(ss) \o Flat(Tail(ss))

\* the X, y loop with model_index never advanced
TrainingRowsStuckIndex(new_models, gt_dict, layer_transform) ==
    Flat([e \in DOMAIN new_models |->
            [i \in DOMAIN new_models[e].v |->
                [x |-> use_feature_reduction_algorithm(
                           Get(layer_transform, new_models[e].k),
                           new_models[e].v[i]),
                 y |-> Get(gt_dict, new_models[e].k)[1]]]])

\* lines 157-171: per architecture in dictionary order, per model in list
\* order: y gets model_ground_truth_dict[arch][model_index], X gets the
\* reduced features of the same model
TrainingRows(new_models, gt_dict, layer_transform) ==
    Flat([e \in DOMAIN new_models |->
            [i \in DOMAIN new_models[e].v |->
                [x |-> use_feature_reduction_algorithm(
                           Get(layer_transform, new_models[e].k),
                           new_models[e].v[i]),
                 y |-> Get(gt_dict, new_models[e].k)[i]]]])

\* lines 154-171
CfgBuildXy ==
    /\ cfg.pc = "apply"
    /\ LET rows == TrainingRows(cfg.new_models, cfg.model_ground_truth_dict,
                                cfg.layer_transform)
       IN  cfg' = [cfg EXCEPT
                !.pc = "train",
                !.X = [none |-> rows = <<>>,
                       rows |-> [i \in DOMAIN rows |-> rows[i].x]],
                !.y = [i \in DOMAIN rows |-> rows[i].y],
                !.log = Append(@, "apply_reduction")]
    /\ UNCHANGED <<files, corpus, calls, result, ld>>

\* lines 173-180: construct the regressor, fit it, persist it
CfgTrain ==
    /\ cfg.pc = "train"
    /\ IF ~(random_forest_kwargs \subseteq RandomForestParams)
       THEN /\ cfg' = [cfg EXCEPT !.pc = "failed", !.err = "TypeError",
                                  !.log = Append(@, "construct_regressor")]
            /\ UNCHANGED files
       ELSE IF cfg.X.none
       THEN /\ cfg' = [cfg EXCEPT !.pc = "failed", !.err = "ValueError",
                          !.log = @ \o <<"construct_regressor", "fit_regressor">>]
            /\ UNCHANGED files
       ELSE /\ cfg' = [cfg EXCEPT !.pc = "done",
                          !.log = @ \o <<"construct_regressor", "fit_regressor",
                                         "write_model">>]
            /\ Dump(ModelFile, ModelDumpMode, [X |-> cfg.X.rows, y |-> cfg.y])
    /\ UNCHANGED <<corpus, calls, result, ld>>

(***************************************************************************)
(* Detector.infer                                                          *)
(***************************************************************************)
NoDir == [cls |-> "", variant |-> "full", nc |-> 0, gt |-> "absent"]
NoFlat == [len |-> 0, parts |-> <<>>]

CallIdle ==
    [pc |-> "idle", target |-> NoDir, model_repr |-> <<>>, model_class |-> "",
     model_layer_map |-> <<>>, new_model |-> NoFlat, layer_transform |-> <<>>,
     X |-> <<>>, err |-> "", log |-> <<>>, start |-> [a \in Artifacts |-> Absent],
     result0 |-> Absent]

\* the model directory an infer call is given; its tensors carry path 0
InferPath == 0

\* line 192: the configure_mode argument infer passes to _load_model
InferConfigureMode == TRUE

Score(X) == [state |-> "score", val |-> <<X>>]

Raise(c, err, step) ==
    calls' = [calls EXCEPT ![c].pc = "failed", ![c].err = err,
                           ![c].log = @ \o step]

\* with open(path, mode) as fp: obj = pickle.load(fp)
LoadOpens(path, mode) == OpenOk(files[path], mode)
LoadOk(path, mode) ==
    LoadOpens(path, mode) /\ PickleLoadOk(Opened(files[path], mode), mode)
LoadErr(path, mode) ==
    IF ~LoadOpens(path, mode) THEN "FileNotFoundError"
    ELSE PickleLoadErr(Opened(files[path], mode), mode)
LoadEffect(path, mode) ==
    files' = IF LoadOpens(path, mode)
             THEN [files EXCEPT ![path] = Opened(@, mode)]
             ELSE files

\* lines 191-193
InferLoadModel(c) ==
    /\ calls[c].pc = "load"
    /\ LET m == LoadModel(InferPath, calls[c].target, InferConfigureMode)
           step == IF InferConfigureMode
                   THEN <<"load_model", "read_ground_truth">>
                   ELSE <<"load_model">>
       IN  IF ~m.ok THEN Raise(c, m.err, step)
           ELSE calls' = [calls EXCEPT ![c].pc = "layermap",
                              ![c].model_repr = m.repr,
                              ![c].model_class = m.cls,
                              ![c].log = @ \o step]
    /\ UNCHANGED <<files, corpus, cfg, result, ld>>

\* lines 195-196
InferLoadLayerMap(c) ==
    /\ calls[c].pc = "layermap"
    /\ LoadEffect(LayerMapFile, LayerMapLoadMode)
    /\ IF ~LoadOk(LayerMapFile, LayerMapLoadMode)
       THEN Raise(c, LoadErr(LayerMapFile, LayerMapLoadMode), <<"load_layer_map">>)
       ELSE calls' = [calls EXCEPT ![c].pc = "flatten",
                          ![c].model_layer_map = files[LayerMapFile].val[1],
                          ![c].log = Append(@, "load_layer_map")]
    /\ UNCHANGED <<corpus, cfg, result, ld>>

\* line 198
InferFlatten(c) ==
    /\ calls[c].pc = "flatten"
    /\ LET cl == calls[c]
       IN  IF cl.model_class \notin Keys(cl.model_layer_map)
           THEN Raise(c, "KeyError:model_layer_map", <<"flatten">>)
           ELSE IF ~FlattenOk(cl.model_repr,
                              Get(cl.model_layer_map, cl.model_class))
           THEN Raise(c, "LayerNotFoundError", <<"flatten">>)
           ELSE calls' = [calls EXCEPT ![c].pc = "transform",
                              ![c].new_model =
                                  flatten_model(cl.model_repr,
                                      Get(cl.model_layer_map, cl.model_class)),
                              ![c].log = Append(@, "flatten")]
    /\ UNCHANGED <<files, corpus, cfg, result, ld>>

\* lines 200-201
InferLoadTransform(c) ==
    /\ calls[c].pc = "transform"
    /\ LoadEffect(TransformFile, TransformLoadMode)
    /\ IF ~LoadOk(TransformFile, TransformLoadMode)
       THEN Raise(c, LoadErr(TransformFile, TransformLoadMode), <<"load_transform">>)
       ELSE calls' = [calls EXCEPT ![c].pc = "reduce",
                          ![c].layer_transform = files[TransformFile].val[1],
                          ![c].log = Append(@, "load_transform")]
    /\ UNCHANGED <<corpus, cfg, result, ld>>

\* line 203
InferReduce(c) ==
    /\ calls[c].pc = "reduce"
    /\ LET cl == calls[c]
       IN  IF cl.model_class \notin Keys(cl.layer_transform)
           THEN Raise(c, "KeyError:layer_transform", <<"apply_reduction">>)
           ELSE calls' = [calls EXCEPT ![c].pc = "predict",
                              ![c].X = <<use_feature_reduction_algorithm(
                                            Get(cl.layer_transform, cl.model_class),
                                            cl.new_model)>>,
                              ![c].log = Append(@, "apply_reduction")]
    /\ UNCHANGED <<files, corpus, cfg, result, ld>>

\* the result file opened for writing before the regressor is loaded
InferPredictResultFirst(c) ==
    /\ calls[c].pc = "predict"
    /\ LoadEffect(ModelFile, ModelLoadMode)
    /\ IF ~LoadOk(ModelFile, ModelLoadMode)
       THEN /\ Raise(c, LoadErr(ModelFile, ModelLoadMode), <<"load_model_bin">>)
            /\ result' = [result EXCEPT ![c] = Empty]
       ELSE /\ calls' = [calls EXCEPT ![c].pc = "done",
                           ![c].log = @ \o <<"load_model_bin", "predict",
                                             "write_result">>]
            /\ result' = [result EXCEPT ![c] = Score(calls[c].X)]
    /\ UNCHANGED <<corpus, cfg, ld>>

\* lines 205-209: load the regressor, predict, write the score
InferPredict(c) ==
    /\ calls[c].pc = "predict"
    /\ LoadEffect(ModelFile, ModelLoadMode)
    /\ IF ~LoadOk(ModelFile, ModelLoadMode)
       THEN /\ Raise(c, LoadErr(ModelFile, ModelLoadMode), <<"load_model_bin">>)
            /\ UNCHANGED result
       ELSE IF ~OpenOk(result[c], ResultOpenMode)
       THEN /\ Raise(c, "FileNotFoundError", <<"load_model_bin", "predict">>)
            /\ UNCHANGED result
       ELSE IF ~Writable(ResultOpenMode)
       THEN /\ Raise(c, "UnsupportedOperation:write",
                     <<"load_model_bin", "predict">>)
            /\ UNCHANGED result
       ELSE /\ calls' = [calls EXCEPT ![c].pc = "done",
                           ![c].log = @ \o <<"load_model_bin", "predict",
                                             "write_result">>]
            /\ result' = [result EXCEPT ![c] = Score(calls[c].X)]
    /\ UNCHANGED <<corpus, cfg, ld>>

\* the model directories infer is called on: a model of the trained
\* architecture with and without the trained layer set, a model of an
\* untrained architecture and a model of an unknown class
InferDirs ==
    {d \in [cls : {"ResNet", "MobileNetV2", "SimplerDenseNNfc"},
            variant : {"full", "nobody"}, nc : {5}, gt : {"absent", "0.0"}] :
        d.variant = "nobody" => d.cls = "ResNet"}

\* a caller invokes infer on some model directory
InferCall(c) ==
    /\ calls[c].pc = "idle"
    /\ \E dir \in InferDirs :
          calls' = [calls EXCEPT ![c].pc = "load", ![c].target = dir,
                                 ![c].start = files, ![c].result0 = result[c]]
    /\ UNCHANGED <<files, corpus, cfg, result, ld>>

(***************************************************************************)
(* An isolated _load_model call                                            *)
(***************************************************************************)
LoadPath == 1

LdIdle == [dir |-> NoDir, mode |-> FALSE, done |-> FALSE, out |-> LoadFail("")]

LoadCall ==
    /\ ~ld.done
    /\ ld' = [ld EXCEPT !.done = TRUE,
                        !.out = LoadModel(LoadPath, ld.dir, ld.mode)]
    /\ UNCHANGED <<files, corpus, cfg, calls, result>>

(***************************************************************************)
(* Artifacts left by an earlier configure run of a working detector on a   *)
(* corpus of ResNet models with identical layer sets                       *)
(***************************************************************************)
RefCorpus ==
    << [cls |-> "ResNet", variant |-> "full", nc |-> 5, gt |-> "0.0"],
       [cls |-> "ResNet", variant |-> "full", nc |-> 5, gt |-> "1.0"],
       [cls |-> "ResNet", variant |-> "full", nc |-> 5, gt |-> "0.0"] >>

RefReprDict ==
    << [k |-> "ResNet",
        v |-> [i \in DOMAIN RefCorpus |-> LoadModel(i, RefCorpus[i], TRUE).repr]] >>

RefLayerMap == create_layer_map(RefReprDict)

RefNewModels ==
    << [k |-> "ResNet",
        v |-> [i \in DOMAIN RefCorpus |->
                 flatten_model(RefReprDict[1].v[i], Get(RefLayerMap, "ResNet"))]] >>

RefTransform == fit_feature_reduction_algorithm(RefNewModels)

RefRegressor ==
    LET rows == TrainingRows(RefNewModels,
                    << [k |-> "ResNet",
                        v |-> [i \in DOMAIN RefCorpus |-> RefCorpus[i].gt]] >>,
                    RefTransform)
    IN  [X |-> [i \in DOMAIN rows |-> rows[i].x],
         y |-> [i \in DOMAIN rows |-> rows[i].y]]

RefFiles ==
    [a \in Artifacts |->
        Pickled(CASE a = LayerMapFile -> RefLayerMap
                  [] a = TransformFile -> RefTransform
                  [] a = ModelFile -> RefRegressor)]

Old == [state |-> "old", val |-> <<>>]

(***************************************************************************)
(* Specifications                                                          *)
(***************************************************************************)
CorpusDirs ==
    {d \in [cls : {"ResNet", "MobileNetV2", "SimplerDenseNNfc"},
            variant : {"full", "nobody"}, nc : {5},
            gt : {"absent", "0.0", "1.0"}] :
        d.variant = "nobody" => d.cls = "ResNet"}

LoadDirs ==
    [cls : {"ResNet", "MobileNetV2", "VisionTransformer", "SimplerDenseNNfc"},
     variant : {"full", "nobody", "nohead", "headfirst"},
     nc : {5, 138, 140}, gt : {"absent", "0.0", "1.0"}]

InitConfigure ==
    /\ files \in {[a \in Artifacts |-> Absent], RefFiles}
    /\ corpus \in UNION {[1..n -> CorpusDirs] : n \in 1..MaxModels}
    /\ cfg = CfgIdle
    /\ calls = [c \in Callers |-> CallIdle]
    /\ result = [c \in Callers |-> Absent]
    /\ ld = LdIdle

NextConfigure ==
    \/ CfgList
    \/ CfgLoadModel
    \/ CfgCheck
    \/ CfgLayerMap
    \/ CfgFlatten
    \/ CfgFitReduction
    \/ CfgBuildXy
    \/ CfgTrain

SpecConfigure == InitConfigure /\ [][NextConfigure]_vars

InitInfer ==
    /\ files \in {[a \in Artifacts |->
                       CASE st[a] = "absent" -> Absent
                         [] st[a] = "empty" -> Empty
                         [] st[a] = "pickled" -> RefFiles[a]] :
                    st \in [Artifacts -> {"absent", "empty", "pickled"}]}
    /\ corpus = <<>>
    /\ cfg = CfgIdle
    /\ calls = [c \in Callers |-> CallIdle]
    /\ result \in {[c \in Callers |-> Absent], [c \in Callers |-> Old]}
    /\ ld = LdIdle

NextInfer ==
    \E c \in Callers :
        \/ InferCall(c)
        \/ InferLoadModel(c)
        \/ InferLoadLayerMap(c)
        \/ InferFlatten(c)
        \/ InferLoadTransform(c)
        \/ InferReduce(c)
        \/ InferPredict(c)

SpecInfer == InitInfer /\ [][NextInfer]_vars

InitLoad ==
    /\ files = [a \in Artifacts |-> Absent]
    /\ corpus = <<>>
    /\ cfg = CfgIdle
    /\ calls = [c \in Callers |-> CallIdle]
    /\ result = [c \in Callers |-> Absent]
    /\ ld \in {[LdIdle EXCEPT !.dir = d, !.mode = m] :
                  d \in LoadDirs, m \in BOOLEAN}

NextLoad == LoadCall

SpecLoad == InitLoad /\ [][NextLoad]_vars

(***************************************************************************)
(* Properties                                                              *)
(***************************************************************************)
Terminal(pc) == pc \in {"done", "failed"}

Count(log, step) == Cardinality({i \in DOMAIN log : log[i] = step})

WriteSteps == {"write_layer_map", "write_transform", "write_model"}

NoArtifactWritten ==
    /\ files = cfg.start
    /\ \A i \in DOMAIN cfg.log : cfg.log[i] \notin WriteSteps

\* two models of one architecture with differing layer-name sets
Mismatch ==
    \E p, q \in DOMAIN corpus :
        /\ corpus[p].cls = corpus[q].cls
        /\ Keys(StateDict(p, corpus[p])) # Keys(StateDict(q, corpus[q]))

AllLoadable == \A p \in DOMAIN corpus : LoadModel(p, corpus[p], TRUE).ok

WellFormedCorpus ==
    /\ corpus # <<>>
    /\ \A p \in DOMAIN corpus : corpus[p].cls \in PaddedArchs
    /\ ~Mismatch
    /\ AllLoadable

\* C1: infer never modifies the layer map, the transform or the regressor:
\* when an infer call has ended (with or without error) the three artifact
\* files hold what they held when it was called.
C1_InferLeavesArtifacts ==
    \A c \in Callers : Terminal(calls[c].pc) => files = calls[c].start

\* C2: a configure run that ended with an error has created or overwritten
\* none of the three artifact files.
C2_FailedConfigureWritesNothing ==
    cfg.pc = "failed" => NoArtifactWritten

\* C3: the consistency check runs once all models are loaded and before the
\* layer map is built, before flattening and before any artifact write; with
\* two models of one architecture differing in layer names configure fails,
\* at the check when every model loads, and no artifact has been written.
C3_CheckIsFailFastGate ==
    /\ \A i \in DOMAIN cfg.log :
          cfg.log[i] = "check" =>
              /\ Count(SubSeq(cfg.log, 1, i - 1), "load") = Len(cfg.paths)
              /\ \A j \in 1..(i - 1) : cfg.log[j] \in {"listdir", "load"}
    /\ \A i \in DOMAIN cfg.log :
          cfg.log[i] \notin {"listdir", "load", "check"} =>
              \E j \in 1..(i - 1) : cfg.log[j] = "check"
    /\ Mismatch /\ cfg.pc # "idle" =>
          /\ NoArtifactWritten
          /\ cfg.pc \in {"load", "failed"}
          /\ cfg.pc = "failed" /\ AllLoadable =>
                /\ cfg.err = "LayerMismatchError"
                /\ cfg.log[Len(cfg.log)] = "check"

C3_Witness ==
    /\ cfg.pc = "failed"
    /\ cfg.err = "LayerMismatchError"
    /\ Len(cfg.paths) = 3
    /\ Mismatch
    /\ files = RefFiles

\* C4: on a non-empty corpus of supported architectures with identical layer
\* sets per architecture, configure ends without error and the layer map,
\* the transform and the fitted regressor have all been persisted.
C4_ConfigureSucceeds ==
    WellFormedCorpus /\ Terminal(cfg.pc) =>
        /\ cfg.pc = "done"
        /\ files[LayerMapFile] = Pickled(cfg.model_layer_map)
        /\ files[TransformFile] = Pickled(cfg.layer_transform)
        /\ files[ModelFile] = Pickled([X |-> cfg.X.rows, y |-> cfg.y])

InferOrder ==
    <<"load_model", "load_layer_map", "flatten", "load_transform",
      "apply_reduction", "load_model_bin", "predict", "write_result">>

\* C5: with the three artifacts of a successful configure present, infer on
\* a model of a trained architecture with the same layer set runs its steps
\* in order, ends without error and has written one score to result_path.
C5_InferScores ==
    \A c \in Callers :
        /\ Terminal(calls[c].pc)
        /\ calls[c].start = RefFiles
        /\ calls[c].target.cls = "ResNet"
        /\ calls[c].target.variant = "full"
        /\ calls[c].target.gt # "absent"
        => /\ calls[c].pc = "done"
           /\ SelectSeq(calls[c].log, LAMBDA x : x # "read_ground_truth")
                 = InferOrder
           /\ result[c].state = "score"

MissingAtCall(c) == {a \in Artifacts : calls[c].start[a] = Absent}

\* C6: an infer call made while one or more of the three artifacts is absent
\* ends with an error and leaves the result path as it was.
C6_MissingArtifactIsFatal ==
    \A c \in Callers :
        calls[c].pc # "idle" /\ MissingAtCall(c) # {} =>
            /\ calls[c].pc # "done"
            /\ result[c] = calls[c].result0

C6_Witness ==
    \E c \in Callers :
        /\ calls[c].pc = "failed"
        /\ MissingAtCall(c) = {ModelFile}
        /\ calls[c].start[LayerMapFile] = RefFiles[LayerMapFile]
        /\ calls[c].start[TransformFile] = RefFiles[TransformFile]
        /\ "apply_reduction" \in {calls[c].log[i] : i \in DOMAIN calls[c].log}
        /\ calls[c].result0 = Old
        /\ result[c] = Old

Unknown == {p \in DOMAIN corpus : corpus[p].cls \notin DOMAIN model_padding}

FirstUnknown == CHOOSE p \in Unknown : \A q \in Unknown : p <= q

LoadedCount(d) == Len(Flat([e \in DOMAIN d |-> d[e].v]))

\* C7: with a model of an unknown class in the corpus configure never gets
\* past that model's load: it skips no model, loads no later model, writes
\* no artifact, and fails there with the padding-table lookup error.
C7_UnknownArchitectureAborts ==
    Unknown # {} /\ cfg.pc # "idle" =>
        /\ cfg.pc \in {"load", "failed"}
        /\ cfg.idx <= FirstUnknown
        /\ Count(cfg.log, "load") <= FirstUnknown
        /\ LoadedCount(cfg.model_repr_dict) = cfg.idx - 1
        /\ NoArtifactWritten
        /\ cfg.pc = "failed" /\ cfg.idx = FirstUnknown
              /\ corpus[FirstUnknown].gt # "absent"
              => cfg.err = "KeyError:model_padding"

C7_Witness ==
    /\ cfg.pc = "failed"
    /\ cfg.err = "KeyError:model_padding"
    /\ FirstUnknown = 3
    /\ cfg.idx = 3
    /\ LoadedCount(cfg.model_repr_dict) = 2

ExpectedRow(p) ==
    LET m == LoadModel(p, corpus[p], TRUE)
    IN  use_feature_reduction_algorithm(
            Get(cfg.layer_transform, m.cls),
            flatten_model(m.repr, Get(cfg.model_layer_map, m.cls)))

RowsOf(p) ==
    {i \in DOMAIN cfg.y :
        cfg.X.rows[i] = ExpectedRow(p) /\ cfg.y[i] = corpus[p].gt}

\* C8: once X and y are built they have one row per loaded model, and row
\* X[i] is the reduced feature vector of the model whose label is y[i].
C8_RowsStayPaired ==
    Count(cfg.log, "apply_reduction") = 1 =>
        /\ Len(cfg.X.rows) = Len(cfg.paths)
        /\ Len(cfg.y) = Len(cfg.paths)
        /\ \A p \in DOMAIN corpus : Cardinality(RowsOf(p)) = 1
        /\ \A i \in DOMAIN cfg.y : \E p \in DOMAIN corpus : i \in RowsOf(p)

C8_Witness ==
    /\ Count(cfg.log, "apply_reduction") = 1
    /\ Len(cfg.y) = 3
    /\ corpus[1].cls = "ResNet" /\ corpus[2].cls = "MobileNetV2"
    /\ corpus[3].cls = "ResNet"
    /\ cfg.y = <<"0.0", "1.0", "0.0">>
    /\ corpus[2].gt = "0.0"

\* C9: infer does not read the ground-truth label file, and two infer calls
\* on models that differ only in having one end the same way.
C9_InferIgnoresGroundTruth ==
    /\ \A c \in Callers :
          /\ \A i \in DOMAIN calls[c].log : calls[c].log[i] # "read_ground_truth"
          /\ calls[c].err # "FileNotFoundError:ground_truth.csv"
    /\ \A c, d \in Callers :
          /\ Terminal(calls[c].pc) /\ Terminal(calls[d].pc)
          /\ calls[c].start = calls[d].start
          /\ [calls[c].target EXCEPT !.gt = ""] = [calls[d].target EXCEPT !.gt = ""]
          => /\ calls[c].pc = calls[d].pc
             /\ calls[c].err = calls[d].err
             /\ result[c] = result[d]

HeadLayers(cls) == {model_padding[cls][i].layer : i \in DOMAIN model_padding[cls]}

\* C10: the representation _load_model returns has the layer names of the
\* model's state in the same order, and every layer outside the padding
\* table's entry for the architecture is the unmodified tensor.
C10_OnlyHeadLayersReplaced ==
    ld.done /\ ld.out.ok =>
        LET sd == StateDict(LoadPath, ld.dir)
        IN  /\ KeySeq(ld.out.repr) = KeySeq(sd)
            /\ \A i \in DOMAIN sd :
                  sd[i].k \notin HeadLayers(ld.dir.cls) =>
                      ld.out.repr[i] = sd[i]

C10_Witness ==
    /\ ld.done /\ ld.out.ok
    /\ ld.dir.variant = "headfirst"
    /\ ld.dir.nc = 5
    /\ ld.out.repr # StateDict(LoadPath, ld.dir)

====
